---- MODULE Spec2Model ----
(***************************************************************************)
(* Host-side driver of the Arduino HID emulator (src/data/arduLeo.py, and   *)
(* its copy src/test2.py): the Arduino session's command methods, the       *)
(* reader thread __read_buffer, the threading.Event gate between them, the  *)
(* serial transport they share, and the device at the far end of the link.  *)
(***************************************************************************)
EXTENDS Integers, Sequences, FiniteSets, TLC

(* ------------------------------------------------------------------ *)
(* Protocol constants (arduLeo.py 11-80)                               *)
(* ------------------------------------------------------------------ *)
MOUSE_CMD == 224
MOUSE_CALIBRATE == 225
MOUSE_PRESS == 226
MOUSE_RELEASE == 227
MOUSE_CLICK == 228
MOUSE_FAST_CLICK == 229
MOUSE_MOVE == 230
MOUSE_BEZIER == 231
MOUSE_LEFT == 234
MOUSE_RIGHT == 235
MOUSE_MIDDLE == 236
MOUSE_BUTTONS == {MOUSE_LEFT, MOUSE_MIDDLE, MOUSE_RIGHT}
KEYBOARD_CMD == 240
KEYBOARD_PRESS == 241
KEYBOARD_RELEASE == 242
KEYBOARD_RELEASE_ALL == 243
KEYBOARD_PRINT == 244
KEYBOARD_PRINTLN == 245
KEYBOARD_WRITE == 246
KEYBOARD_TYPE == 247
SCREEN_CALIBRATE == 255
COMMAND_COMPLETE == 254

(* ------------------------------------------------------------------ *)
(* Bounds of the model                                                 *)
(* ------------------------------------------------------------------ *)
\* command calls started over a run, all caller threads together
MaxCalls == 2
\* bytes the device sends that no command asked for
MaxDevSends == 1

\* the caller threads of the session
Threads == {1, 2}
\* the writer tag of the reader thread in the transport's output
READER == 0

(* ------------------------------------------------------------------ *)
(* Python values: k is the type, v the number (a float holds twice its *)
(* value, so that halves are exact), s the characters of a str         *)
(* ------------------------------------------------------------------ *)
PInt(n) == [k |-> "int", v |-> n, s |-> <<>>]
PBool(b) == [k |-> "bool", v |-> IF b THEN 1 ELSE 0, s |-> <<>>]
PFloat(h) == [k |-> "float", v |-> h, s |-> <<>>]
PStr(cs) == [k |-> "str", v |-> 0, s |-> cs]
PNone == [k |-> "none", v |-> 0, s |-> <<>>]

\* isinstance(x, int): bool is a subclass of int
IsInt(x) == x.k \in {"int", "bool"}
\* isinstance(x, str)
IsStr(x) == x.k = "str"
\* isinstance(x, (int, float))
IsNumber(x) == x.k \in {"int", "bool", "float"}
\* x in MOUSE_BUTTONS: list membership compares with ==, and 234.0 == 234
InMouseButtons(x) ==
    \/ IsInt(x) /\ x.v \in MOUSE_BUTTONS
    \/ x.k = "float" /\ x.v % 2 = 0 /\ (x.v \div 2) \in MOUSE_BUTTONS
\* x < n and x > n for a number x (twice the value for a float)
Twice(x) == IF x.k = "float" THEN x.v ELSE 2 * x.v
\* truth value of x (if not endl)
Truthy(x) == IF x.k = "str" THEN Len(x.s) > 0 ELSE IF x.k = "none" THEN FALSE ELSE x.v # 0

(* ------------------------------------------------------------------ *)
(* Wire codec: struct.pack and the write helpers (arduLeo.py 309-320)  *)
(* ------------------------------------------------------------------ *)
\* one call of __write_byte (f = "B") or __write_short (f = "H") on x
BV(x) == [f |-> "B", x |-> x]
HV(x) == [f |-> "H", x |-> x]
B(n) == BV(PInt(n))

\* float -> int truncates towards zero (h is twice the float's value)
TruncHalf(h) == IF h >= 0 THEN h \div 2 ELSE -((-h) \div 2)

\* int(str): decimal digits only (the strings of the model hold no sign,
\* blank or underscore); -1 stands for "not a number" (ValueError)
RECURSIVE ParseDigits(_, _)
ParseDigits(cs, acc) ==
    IF cs = <<>> THEN acc
    ELSE IF Head(cs) \in 48..57 THEN ParseDigits(Tail(cs), 10 * acc + Head(cs) - 48)
    ELSE -1

\* int(x): [err, n]
ToInt(x) ==
    CASE IsInt(x) -> [err |-> "none", n |-> x.v]
      [] x.k = "float" -> [err |-> "none", n |-> TruncHalf(x.v)]
      [] x.k = "str" ->
            IF x.s # <<>> /\ ParseDigits(x.s, 0) >= 0
            THEN [err |-> "none", n |-> ParseDigits(x.s, 0)]
            ELSE [err |-> "ValueError", n |-> 0]
      [] OTHER -> [err |-> "TypeError", n |-> 0]

\* struct.pack('<B', x): one byte, x an integer in 0..255
PackByte(x) ==
    IF IsInt(x) /\ x.v >= 0 /\ x.v <= 255
    THEN [err |-> "none", b |-> <<x.v>>]
    ELSE [err |-> "struct.error", b |-> <<>>]

\* a '>H' in place of '<H': high byte first
PackShort_BigEndian(x) ==
    LET r == ToInt(x) IN
    IF r.err # "none" THEN [err |-> r.err, b |-> <<>>]
    ELSE IF r.n >= 0 /\ r.n <= 65535
    THEN [err |-> "none", b |-> <<r.n \div 256, r.n % 256>>]
    ELSE [err |-> "struct.error", b |-> <<>>]

\* struct.pack('<H', int(x)): two bytes, low byte first
PackShort(x) ==
    LET r == ToInt(x) IN
    IF r.err # "none" THEN [err |-> r.err, b |-> <<>>]
    ELSE IF r.n >= 0 /\ r.n <= 65535
    THEN [err |-> "none", b |-> <<r.n % 256, r.n \div 256>>]
    ELSE [err |-> "struct.error", b |-> <<>>]

\* the bytes one write helper hands to serial.write, or the error it raises
Pack(item) == IF item.f = "B" THEN PackByte(item.x) ELSE PackShort(item.x)

\* a __write_str that leaves out the 0x00 sentinel
write_str_NoSentinel(string) == [i \in 1..Len(string.s) |-> B(string.s[i])]

\* __write_str: one __write_byte per character, then the 0x00 sentinel
write_str(string) == [i \in 1..Len(string.s) |-> B(string.s[i])] \o <<B(0)>>

(* ------------------------------------------------------------------ *)
(* The command methods (arduLeo.py 121-266): the error raised before   *)
(* the first write (err) and the write helpers called in order (items) *)
(* ------------------------------------------------------------------ *)
Rejected(e) == [err |-> e, items |-> <<>>]
Accepted(items) == [err |-> "none", items |-> items]

\* a press that sends every button down the keyboard path
press_NoMouseBranch(button) ==
    IF IsInt(button) THEN Accepted(<<B(KEYBOARD_CMD), B(KEYBOARD_PRESS), BV(button)>>)
    ELSE IF IsStr(button) /\ Len(button.s) = 1
    THEN Accepted(<<B(KEYBOARD_CMD), B(KEYBOARD_PRESS), B(button.s[1])>>)
    ELSE Rejected("ValueError")

press(button) ==
    IF InMouseButtons(button) THEN Accepted(<<B(MOUSE_CMD), B(MOUSE_PRESS), BV(button)>>)
    ELSE IF IsInt(button) THEN Accepted(<<B(KEYBOARD_CMD), B(KEYBOARD_PRESS), BV(button)>>)
    ELSE IF IsStr(button) /\ Len(button.s) = 1
    THEN Accepted(<<B(KEYBOARD_CMD), B(KEYBOARD_PRESS), B(button.s[1])>>)
    ELSE Rejected("ValueError")

release(button) ==
    IF InMouseButtons(button) THEN Accepted(<<B(MOUSE_CMD), B(MOUSE_RELEASE), BV(button)>>)
    ELSE IF IsInt(button) THEN Accepted(<<B(KEYBOARD_CMD), B(KEYBOARD_RELEASE), BV(button)>>)
    ELSE IF IsStr(button) /\ Len(button.s) = 1
    THEN Accepted(<<B(KEYBOARD_CMD), B(KEYBOARD_RELEASE), B(button.s[1])>>)
    ELSE Rejected("ValueError")

release_all == Accepted(<<B(KEYBOARD_CMD), B(KEYBOARD_RELEASE_ALL)>>)

write(keys, endl) ==
    IF IsInt(keys) THEN Accepted(<<B(KEYBOARD_CMD), B(KEYBOARD_WRITE), BV(keys)>>)
    ELSE IF IsStr(keys) /\ Len(keys.s) = 1
    THEN Accepted(<<B(KEYBOARD_CMD), B(KEYBOARD_WRITE), B(keys.s[1])>>)
    ELSE IF IsStr(keys)
    THEN IF ~Truthy(endl)
         THEN Accepted(<<B(KEYBOARD_CMD), B(KEYBOARD_PRINT)>> \o write_str(keys))
         ELSE Accepted(<<B(KEYBOARD_CMD), B(KEYBOARD_PRINTLN)>> \o write_str(keys))
    ELSE Rejected("ValueError")

\* not isinstance(x, int) and x < lo or x > hi: the comparison of a value
\* that is no number raises TypeError
RangeCheck(x, lo, hi) ==
    IF ~IsNumber(x) THEN "TypeError"
    ELSE IF (~IsInt(x) /\ Twice(x) < 2 * lo) \/ Twice(x) > 2 * hi THEN "ValueError"
    ELSE "none"

\* a type that sends accuracy before mistakes
type_ProfileReordered(message, wpm, mistakes, accuracy) ==
    IF ~IsStr(message) THEN Rejected("ValueError")
    ELSE IF RangeCheck(wpm, 1, 255) # "none" THEN Rejected(RangeCheck(wpm, 1, 255))
    ELSE IF mistakes.k # "bool" THEN Rejected("ValueError")
    ELSE IF RangeCheck(accuracy, 1, 100) # "none" THEN Rejected(RangeCheck(accuracy, 1, 100))
    ELSE Accepted(<<B(KEYBOARD_CMD), B(KEYBOARD_TYPE)>> \o write_str(message)
                  \o <<BV(wpm), BV(accuracy), BV(mistakes)>>)

type(message, wpm, mistakes, accuracy) ==
    IF ~IsStr(message) THEN Rejected("ValueError")
    ELSE IF RangeCheck(wpm, 1, 255) # "none" THEN Rejected(RangeCheck(wpm, 1, 255))
    ELSE IF mistakes.k # "bool" THEN Rejected("ValueError")
    ELSE IF RangeCheck(accuracy, 1, 100) # "none" THEN Rejected(RangeCheck(accuracy, 1, 100))
    ELSE Accepted(<<B(KEYBOARD_CMD), B(KEYBOARD_TYPE)>> \o write_str(message)
                  \o <<BV(wpm), BV(mistakes), BV(accuracy)>>)

click(button) ==
    IF ~InMouseButtons(button) THEN Rejected("ValueError")
    ELSE Accepted(<<B(MOUSE_CMD), B(MOUSE_CLICK), BV(button)>>)

fast_click(button) ==
    IF ~InMouseButtons(button) THEN Rejected("ValueError")
    ELSE Accepted(<<B(MOUSE_CMD), B(MOUSE_FAST_CLICK), BV(button)>>)

move(dest_x, dest_y) ==
    IF ~IsNumber(dest_x) /\ ~IsNumber(dest_y) THEN Rejected("ValueError")
    ELSE Accepted(<<B(MOUSE_CMD), B(MOUSE_MOVE), HV(dest_x), HV(dest_y)>>)

bezier_move(dest_x, dest_y) ==
    IF ~IsNumber(dest_x) /\ ~IsNumber(dest_y) THEN Rejected("ValueError")
    ELSE Accepted(<<B(MOUSE_CMD), B(MOUSE_BEZIER), HV(dest_x), HV(dest_y)>>)

\* a call c = [op, a]: the method named c.op applied to the arguments c.a
Plan(c) ==
    CASE c.op = "press" -> press(c.a[1])
      [] c.op = "release" -> release(c.a[1])
      [] c.op = "release_all" -> release_all
      [] c.op = "write" -> write(c.a[1], c.a[2])
      [] c.op = "type" -> type(c.a[1], c.a[2], c.a[3], c.a[4])
      [] c.op = "click" -> click(c.a[1])
      [] c.op = "fast_click" -> fast_click(c.a[1])
      [] c.op = "move" -> move(c.a[1], c.a[2])
      [] c.op = "bezier_move" -> bezier_move(c.a[1], c.a[2])

Call(op, a) == [op |-> op, a |-> a]

(* ------------------------------------------------------------------ *)
(* State                                                               *)
(* ------------------------------------------------------------------ *)
VARIABLES
    pc,         \* per caller thread: "idle", "write", "wait", "blocked", "woken"
    call,       \* per caller thread: its current (or last) command call
    todo,       \* per caller thread: the write helpers its call has yet to run
    flag,       \* threading.Event._flag of __command_complete
    serialOpen, \* serial.Serial.is_open
    fault,      \* "none"; after a failed read "readonly" (writes still pass) or "down"
    rx,         \* bytes the device has sent and the reader has not read yet
    rpc,        \* reader thread: "read", "calibrate", "set", "clear", "dead"
    rtodo,      \* reader thread: the __write_short calls its reply has yet to run
    rfresh,     \* threads whose command was fully written when the reader read its byte
    byte,       \* reader thread: the byte it read last (-1 before the first)
    answer,     \* reader thread: what the Calibration Provider answered to it
    wire,       \* every serial.write so far: [w: writer, id: command or reply, b: bytes]
    owed,       \* complete commands the device has received and not acknowledged
    pending,    \* set() ran with no thread blocked, and no wait() has started since
    nCalls,     \* command calls started
    nReplies,   \* calibration requests the reader took up
    nSends      \* unrequested bytes the device sent

vars == <<pc, call, todo, flag, serialOpen, fault, rx, rpc, rtodo, rfresh, wire,
          owed, pending, nCalls, nReplies, nSends, byte, answer>>

NoCall == [id |-> 0, c |-> Call("none", <<>>), out |-> "none", nw |-> 0,
           fresh |-> FALSE, afterClose |-> FALSE, afterFault |-> FALSE,
           immediate |-> FALSE, overlap |-> FALSE, missed |-> FALSE]

\* Arduino.__init__ (arduLeo.py 105-119): port open, gate clear, reader started
Init ==
    /\ pc = [t \in Threads |-> "idle"]
    /\ call = [t \in Threads |-> NoCall]
    /\ todo = [t \in Threads |-> <<>>]
    /\ flag = FALSE
    /\ serialOpen = TRUE
    /\ fault = "none"
    /\ rx = <<>>
    /\ rpc = "read"
    /\ rtodo = <<>>
    /\ rfresh = {}
    /\ byte = -1
    /\ answer = <<>>
    /\ wire = <<>>
    /\ owed = 0
    /\ pending = FALSE
    /\ nCalls = 0
    /\ nReplies = 0
    /\ nSends = 0

\* a write that does not look at the port being open
PortWritable_NoOpenCheck == fault # "down"

\* serial.write passes: the port is open and the link carries writes
PortWritable == serialOpen /\ fault # "down"

\* the command of thread t is written in full and its call has not ended
Sent(t) == pc[t] \in {"wait", "blocked", "woken"}

\* a command of another thread is in flight: written in full, and no
\* CommandComplete read after that was handled
OtherInFlight(t) == \E u \in Threads \ {t} : Sent(u) /\ ~call[u].fresh

(* ------------------------------------------------------------------ *)
(* Caller threads                                                      *)
(* ------------------------------------------------------------------ *)
\* entry of a command method up to its first write: the argument checks
CallStart(t, c) ==
    /\ pc[t] = "idle"
    /\ nCalls < MaxCalls
    /\ LET plan == Plan(c)
           rec == [id |-> nCalls + 1, c |-> c,
                   out |-> IF plan.err = "none" THEN "running" ELSE plan.err,
                   nw |-> 0, fresh |-> FALSE, afterClose |-> ~serialOpen,
                   afterFault |-> fault # "none", immediate |-> FALSE,
                   overlap |-> FALSE, missed |-> FALSE]
       IN /\ call' = [call EXCEPT ![t] = rec]
          /\ pc' = [pc EXCEPT ![t] = IF plan.err = "none" THEN "write" ELSE "idle"]
          /\ todo' = [todo EXCEPT ![t] = plan.items]
    /\ nCalls' = nCalls + 1
    /\ rfresh' = rfresh \ {t}
    /\ UNCHANGED <<flag, serialOpen, fault, rx, rpc, rtodo, wire, owed, pending,
                   nReplies, nSends,
                   byte, answer>>

\* one __write_byte / __write_short of the running method: struct.pack, then
\* serial.write; the method goes on to wait() after its last write
WriteStep(t) ==
    /\ pc[t] = "write"
    /\ LET p == Pack(Head(todo[t])) IN
       IF p.err # "none" \/ ~PortWritable
       THEN /\ call' = [call EXCEPT ![t].out =
                           IF p.err # "none" THEN p.err ELSE "SerialException"]
            /\ pc' = [pc EXCEPT ![t] = "idle"]
            /\ todo' = [todo EXCEPT ![t] = <<>>]
            /\ UNCHANGED <<wire, owed>>
       ELSE /\ wire' = Append(wire, [w |-> t, id |-> call[t].id, b |-> p.b])
            /\ call' = [call EXCEPT ![t].nw = @ + 1,
                                    ![t].overlap = @ \/ (call[t].nw = 0 /\ OtherInFlight(t))]
            /\ todo' = [todo EXCEPT ![t] = Tail(@)]
            /\ pc' = [pc EXCEPT ![t] = IF Len(todo[t]) = 1 THEN "wait" ELSE "write"]
            /\ owed' = IF Len(todo[t]) = 1 THEN owed + 1 ELSE owed
    /\ UNCHANGED <<flag, serialOpen, fault, rx, rpc, rtodo, rfresh, pending,
                   nCalls, nReplies, nSends,
                   byte, answer>>

\* self.__command_complete.wait(): returns at once when the flag is set,
\* else the thread joins the waiters of the event
WaitEnter(t) ==
    /\ pc[t] = "wait"
    /\ IF flag
       THEN /\ pc' = [pc EXCEPT ![t] = "idle"]
            /\ call' = [call EXCEPT ![t].out = "returned", ![t].immediate = TRUE,
                                    ![t].missed = pending]
       ELSE /\ pc' = [pc EXCEPT ![t] = "blocked"]
            /\ call' = [call EXCEPT ![t].missed = pending]
    /\ pending' = FALSE
    /\ UNCHANGED <<todo, flag, serialOpen, fault, rx, rpc, rtodo, rfresh, wire,
                   owed, nCalls, nReplies, nSends,
                   byte, answer>>

\* a thread that set() notified returns from wait(), whatever the flag is by now
WaitReturn(t) ==
    /\ pc[t] = "woken"
    /\ pc' = [pc EXCEPT ![t] = "idle"]
    /\ call' = [call EXCEPT ![t].out = "returned"]
    /\ UNCHANGED <<todo, flag, serialOpen, fault, rx, rpc, rtodo, rfresh, wire,
                   owed, pending, nCalls, nReplies, nSends,
                   byte, answer>>

\* Arduino.close(): self.serial.close()
Close ==
    /\ serialOpen
    /\ serialOpen' = FALSE
    /\ UNCHANGED <<pc, call, todo, flag, fault, rx, rpc, rtodo, rfresh, wire,
                   owed, pending, nCalls, nReplies, nSends,
                   byte, answer>>

(* ------------------------------------------------------------------ *)
(* Reader thread: __read_buffer and the calibration replies            *)
(* ------------------------------------------------------------------ *)
\* what the Calibration Provider answers: winfo_screenwidth/height and
\* winfo_pointerxy (a pointer left of the main screen is negative)
ScreenVals == {<<1920, 1080>>}
PointerVals == {<<300, 5>>, <<-1, 5>>, <<70000, 5>>}

\* a reader whose last branch is an else: every byte that is no calibration
\* request signals the gate
ReaderRead_ElseSignals ==
    /\ rpc = "read"
    /\ serialOpen
    /\ fault = "none"
    /\ rx # <<>>
    /\ rx' = Tail(rx)
    /\ byte' = Head(rx)
    /\ CASE byte' = MOUSE_CALIBRATE ->
              /\ \E xy \in PointerVals :
                    /\ answer' = xy
                    /\ rtodo' = <<HV(PInt(xy[1])), HV(PInt(xy[2]))>>
              /\ rpc' = "calibrate"
              /\ nReplies' = nReplies + 1
              /\ UNCHANGED rfresh
         [] byte' = SCREEN_CALIBRATE ->
              /\ \E wh \in ScreenVals :
                    /\ answer' = wh
                    /\ rtodo' = <<HV(PInt(wh[1])), HV(PInt(wh[2]))>>
              /\ rpc' = "calibrate"
              /\ nReplies' = nReplies + 1
              /\ UNCHANGED rfresh
         [] OTHER ->
              /\ rpc' = "set"
              /\ rfresh' = {t \in Threads : Sent(t)}
              /\ UNCHANGED <<rtodo, nReplies, answer>>
    /\ UNCHANGED <<pc, call, todo, flag, serialOpen, fault, wire, owed, pending,
                   nCalls, nSends>>

\* byte = ord(self.serial.read()) and the branch on it; a calibration
\* request asks the provider and leaves two __write_short calls to run
ReaderRead ==
    /\ rpc = "read"
    /\ serialOpen
    /\ fault = "none"
    /\ rx # <<>>
    /\ rx' = Tail(rx)
    /\ byte' = Head(rx)
    /\ CASE byte' = MOUSE_CALIBRATE ->
              /\ \E xy \in PointerVals :
                    /\ answer' = xy
                    /\ rtodo' = <<HV(PInt(xy[1])), HV(PInt(xy[2]))>>
              /\ rpc' = "calibrate"
              /\ nReplies' = nReplies + 1
              /\ UNCHANGED rfresh
         [] byte' = SCREEN_CALIBRATE ->
              /\ \E wh \in ScreenVals :
                    /\ answer' = wh
                    /\ rtodo' = <<HV(PInt(wh[1])), HV(PInt(wh[2]))>>
              /\ rpc' = "calibrate"
              /\ nReplies' = nReplies + 1
              /\ UNCHANGED rfresh
         [] byte' = COMMAND_COMPLETE ->
              /\ rpc' = "set"
              /\ rfresh' = {t \in Threads : Sent(t)}
              /\ UNCHANGED <<rtodo, nReplies, answer>>
         [] OTHER ->
              /\ UNCHANGED <<rpc, rtodo, rfresh, nReplies, answer>>
    /\ UNCHANGED <<pc, call, todo, flag, serialOpen, fault, wire, owed, pending,
                   nCalls, nSends>>

\* self.serial.read() on a closed port raises: the reader thread ends
ReaderReadFail ==
    /\ rpc = "read"
    /\ ~serialOpen
    /\ rpc' = "dead"
    /\ UNCHANGED <<pc, call, todo, flag, serialOpen, fault, rx, rtodo, rfresh, wire,
                   owed, pending, nCalls, nReplies, nSends,
                   byte, answer>>

\* self.serial.read() raises on an open port (the device is gone, or the port
\* is taken over): the reader thread ends; later writes may pass or fail
ReadFault ==
    /\ rpc = "read"
    /\ serialOpen
    /\ fault = "none"
    /\ \E f \in {"readonly", "down"} : fault' = f
    /\ rpc' = "dead"
    /\ UNCHANGED <<pc, call, todo, flag, serialOpen, rx, rtodo, rfresh, wire,
                   owed, pending, nCalls, nReplies, nSends,
                   byte, answer>>

\* one __write_short of __calibrate_screen / __calibrate_mouse; an error of
\* struct.pack or serial.write is not caught and ends the reader thread
CalibrateWrite ==
    /\ rpc = "calibrate"
    /\ LET p == Pack(Head(rtodo)) IN
       IF p.err # "none" \/ ~PortWritable
       THEN /\ rpc' = "dead"
            /\ rtodo' = <<>>
            /\ UNCHANGED wire
       ELSE /\ wire' = Append(wire, [w |-> READER, id |-> nReplies, b |-> p.b])
            /\ rtodo' = Tail(rtodo)
            /\ rpc' = IF Len(rtodo) = 1 THEN "read" ELSE "calibrate"
    /\ UNCHANGED <<pc, call, todo, flag, serialOpen, fault, rx, rfresh, owed,
                   pending, nCalls, nReplies, nSends,
                   byte, answer>>

\* self.__command_complete.set(): the flag goes up and every waiter is notified
GateSet ==
    /\ rpc = "set"
    /\ flag' = TRUE
    /\ pc' = [t \in Threads |-> IF pc[t] = "blocked" THEN "woken" ELSE pc[t]]
    /\ call' = [t \in Threads |->
                  IF t \in rfresh /\ Sent(t) THEN [call[t] EXCEPT !.fresh = TRUE]
                  ELSE call[t]]
    /\ pending' = IF \E t \in Threads : pc[t] = "blocked" THEN pending ELSE TRUE
    /\ rpc' = "clear"
    /\ UNCHANGED <<todo, serialOpen, fault, rx, rtodo, rfresh, wire, owed,
                   nCalls, nReplies, nSends,
                   byte, answer>>

\* a reader loop that does not clear the gate after setting it
GateClear_Omitted ==
    /\ rpc = "clear"
    /\ rpc' = "read"
    /\ UNCHANGED <<pc, call, todo, flag, serialOpen, fault, rx, rtodo, rfresh, wire,
                   owed, pending, nCalls, nReplies, nSends,
                   byte, answer>>

\* self.__command_complete.clear(), the statement after set()
GateClear ==
    /\ rpc = "clear"
    /\ flag' = FALSE
    /\ rpc' = "read"
    /\ UNCHANGED <<pc, call, todo, serialOpen, fault, rx, rtodo, rfresh, wire,
                   owed, pending, nCalls, nReplies, nSends,
                   byte, answer>>

(* ------------------------------------------------------------------ *)
(* The device at the far end of the serial link                        *)
(* ------------------------------------------------------------------ *)
\* the device acknowledges a command it has received in full
DeviceComplete ==
    /\ owed > 0
    /\ serialOpen
    /\ fault = "none"
    /\ rx' = Append(rx, COMMAND_COMPLETE)
    /\ owed' = owed - 1
    /\ UNCHANGED <<pc, call, todo, flag, serialOpen, fault, rpc, rtodo, rfresh,
                   wire, pending, nCalls, nReplies, nSends,
                   byte, answer>>

\* the device sends a byte no command asked for
DeviceSend(b) ==
    /\ nSends < MaxDevSends
    /\ serialOpen
    /\ fault = "none"
    /\ rx' = Append(rx, b)
    /\ nSends' = nSends + 1
    /\ UNCHANGED <<pc, call, todo, flag, serialOpen, fault, rpc, rtodo, rfresh,
                   wire, owed, pending, nCalls, nReplies,
                   byte, answer>>

\* bytes the device may send unasked: the three control bytes and one other
DevBytes == {COMMAND_COMPLETE, SCREEN_CALIBRATE, MOUSE_CALIBRATE, 65}
\* the same without a CommandComplete that no command earned, and without
\* the pointer request
OrderlyBytes == {SCREEN_CALIBRATE, 65}

(* ------------------------------------------------------------------ *)
(* Calls the caller threads make                                       *)
(* ------------------------------------------------------------------ *)
Txt(cs) == PStr(cs)
Calls ==
    { Call("press", <<PInt(MOUSE_LEFT)>>),
      Call("press", <<PInt(300)>>),
      Call("release_all", <<>>),
      Call("click", <<PInt(5)>>) }

\* the call passes its argument checks and every struct.pack of it
ValidCall(c) ==
    /\ Plan(c).err = "none"
    /\ \A i \in 1..Len(Plan(c).items) : Pack(Plan(c).items[i]).err = "none"

(* ------------------------------------------------------------------ *)
(* Specifications                                                      *)
(* ------------------------------------------------------------------ *)
\* one caller thread, as in the script at the end of src/test2.py
Next ==
    \/ \E c \in Calls : CallStart(1, c)
    \/ WriteStep(1)
    \/ WaitEnter(1)
    \/ WaitReturn(1)
    \/ Close
    \/ ReaderRead
    \/ ReaderReadFail
    \/ ReadFault
    \/ CalibrateWrite
    \/ GateSet
    \/ GateClear
    \/ DeviceComplete
    \/ \E b \in DevBytes : DeviceSend(b)

Spec == Init /\ [][Next]_vars

\* one caller thread and a device that sends CommandComplete once per
\* complete command; the session is not closed and no read fails
OrderlyNext ==
    \/ \E c \in Calls : CallStart(1, c)
    \/ WriteStep(1)
    \/ WaitEnter(1)
    \/ WaitReturn(1)
    \/ ReaderRead
    \/ CalibrateWrite
    \/ GateSet
    \/ GateClear
    \/ DeviceComplete
    \/ \E b \in OrderlyBytes : DeviceSend(b)

OrderlySpec == Init /\ [][OrderlyNext]_vars

\* the caller thread, the reader thread and the device all keep running
Fairness ==
    /\ \A t \in Threads : WF_vars(WriteStep(t) \/ WaitEnter(t) \/ WaitReturn(t))
    /\ WF_vars(ReaderRead \/ ReaderReadFail \/ CalibrateWrite \/ GateSet \/ GateClear)
    /\ WF_vars(DeviceComplete)

FairOrderlySpec == OrderlySpec /\ Fairness

\* the same with close()
CloseNext ==
    \/ \E c \in Calls : CallStart(1, c)
    \/ WriteStep(1)
    \/ WaitEnter(1)
    \/ WaitReturn(1)
    \/ Close
    \/ ReaderRead
    \/ ReaderReadFail
    \/ GateSet
    \/ GateClear
    \/ DeviceComplete

FairCloseSpec == Init /\ [][CloseNext]_vars /\ Fairness

\* two caller threads on one session, the device orderly
DuoCalls == {Call("press", <<PInt(MOUSE_LEFT)>>), Call("release_all", <<>>)}
DuoNext ==
    \/ \E t \in Threads, c \in DuoCalls : CallStart(t, c)
    \/ \E t \in Threads : WriteStep(t)
    \/ \E t \in Threads : WaitEnter(t)
    \/ \E t \in Threads : WaitReturn(t)
    \/ ReaderRead
    \/ GateSet
    \/ GateClear
    \/ DeviceComplete

DuoSpec == Init /\ [][DuoNext]_vars

\* the bytes the serial.write calls of writer w for its command or reply id
\* have put on the transport, in order
RECURSIVE Written(_, _, _)
Written(ws, w, id) ==
    IF ws = <<>> THEN <<>>
    ELSE (IF Head(ws).w = w /\ Head(ws).id = id THEN Head(ws).b ELSE <<>>)
         \o Written(Tail(ws), w, id)

\* every operation, with arguments its checks accept, arguments they reject
\* and arguments that fail later, in struct.pack or int()
ApiCalls ==
    { Call("press", <<x>>) : x \in {PInt(MOUSE_LEFT), PInt(65), PInt(300), PInt(-1),
                                     Txt(<<97>>), Txt(<<97, 98>>), PNone, PFloat(468)} }
    \cup { Call("release", <<x>>) : x \in {PInt(MOUSE_MIDDLE), PInt(300), Txt(<<97>>), PNone} }
    \cup { Call("release_all", <<>>) }
    \cup { Call("write", <<x, PBool(e)>>) :
             x \in {PInt(65), PInt(300), Txt(<<97>>), Txt(<<97, 98>>), PNone}, e \in BOOLEAN }
    \cup { Call("type", <<Txt(<<97>>), w, PBool(TRUE), PInt(96)>>) :
             w \in {PInt(80), PInt(0), PInt(-5), PInt(300), PFloat(1), Txt(<<97>>)} }
    \cup { Call("type", <<Txt(<<97>>), PInt(80), PBool(FALSE), a>>) :
             a \in {PInt(100), PInt(0), PInt(-5), PInt(101), PNone} }
    \cup { Call("type", <<PNone, PInt(80), PBool(TRUE), PInt(96)>>),
           Call("type", <<Txt(<<97>>), PInt(80), PInt(1), PInt(96)>>) }
    \cup { Call("click", <<x>>) : x \in {PInt(MOUSE_LEFT), PInt(5), PInt(-1), PInt(300), PNone} }
    \cup { Call("fast_click", <<x>>) : x \in {PInt(MOUSE_RIGHT), PInt(5)} }
    \cup { Call(op, <<x, y>>) : op \in {"move", "bezier_move"},
             x \in {PInt(3), Txt(<<97>>), PInt(70000)}, y \in {PInt(4), PNone, PFloat(-3)} }

\* one caller thread going through the whole API on a session that may be closed
ApiNext ==
    \/ \E c \in ApiCalls : CallStart(1, c)
    \/ WriteStep(1)
    \/ WaitEnter(1)
    \/ WaitReturn(1)
    \/ Close
    \/ ReaderRead
    \/ ReaderReadFail
    \/ GateSet
    \/ GateClear
    \/ DeviceComplete

ApiSpec == Init /\ [][ApiNext]_vars

\* one caller thread making the calls of CS on a session that stays open,
\* with a device that acknowledges each command
EncNext(CS) ==
    \/ \E c \in CS : CallStart(1, c)
    \/ WriteStep(1)
    \/ WaitEnter(1)
    \/ WaitReturn(1)
    \/ ReaderRead
    \/ GateSet
    \/ GateClear
    \/ DeviceComplete

\* press and release of the three mouse buttons, of key codes (the ends of
\* 0..255 and one inside) and of single characters (one above chr(255))
KeyCalls ==
    { Call(op, <<x>>) : op \in {"press", "release"},
        x \in {PInt(MOUSE_LEFT), PInt(MOUSE_RIGHT), PInt(MOUSE_MIDDLE),
               PInt(0), PInt(65), PInt(255),
               Txt(<<97>>), Txt(<<255>>), Txt(<<8364>>)} }
KeyNext == EncNext(KeyCalls)
KeySpec == Init /\ [][KeyNext]_vars

\* move and bezier_move to integer coordinates: the ends of 0..65535 and
\* values with both bytes set
MoveCalls ==
    { Call(op, <<PInt(x), PInt(y)>>) : op \in {"move", "bezier_move"},
        x \in {0, 300, 65535}, y \in {0, 258, 65535} }
MoveNext == EncNext(MoveCalls)
MoveSpec == Init /\ [][MoveNext]_vars

\* write of strings of length 0 to 3 (characters 1..255), with and without
\* endl
TextCalls ==
    { Call("write", <<Txt(cs), PBool(e)>>) :
        cs \in {<<>>, <<97>>, <<65, 66>>, <<1, 255, 97>>}, e \in BOOLEAN }
TextNext == EncNext(TextCalls)
TextSpec == Init /\ [][TextNext]_vars

\* type with every argument in its domain: messages of length 0 to 3 (one
\* holds a chr(0)), the ends of the wpm and accuracy ranges, both mistakes
TypeCalls ==
    { Call("type", <<Txt(cs), PInt(wa[1]), PBool(m), PInt(wa[2])>>) :
        cs \in {<<>>, <<97>>, <<65, 255>>, <<97, 0, 98>>},
        wa \in {<<1, 100>>, <<255, 1>>}, m \in BOOLEAN }
TypeNext == EncNext(TypeCalls)
TypeSpec == Init /\ [][TypeNext]_vars

\* the device reading a type command: the two command bytes, the message up
\* to the first 0x00, then wpm, mistakes and accuracy
RECURSIVE UpToZero(_)
UpToZero(bs) ==
    IF bs = <<>> \/ Head(bs) = 0 THEN <<>> ELSE <<Head(bs)>> \o UpToZero(Tail(bs))
DecodeType(bs) ==
    LET body == SubSeq(bs, 3, Len(bs))
        msg == UpToZero(body)
        rest == SubSeq(body, Len(msg) + 2, Len(body))
    IN [message |-> msg, wpm |-> rest[1], mistakes |-> rest[2] # 0, accuracy |-> rest[3]]

(* ------------------------------------------------------------------ *)
(* Claims                                                              *)
(* ------------------------------------------------------------------ *)
\* C1: with one caller thread and an orderly device, a command call that has
\* returned was released by a CommandComplete the reader read after the call
\* had written all its command bytes.
C1_ReturnsOnlyAfterOwnComplete ==
    call[1].out = "returned" => call[1].fresh

\* C2: with two caller threads, no thread writes the first byte of a command
\* while another thread's command is written in full and not yet acknowledged.
C2_OneCommandInFlight ==
    \A t \in Threads : ~call[t].overlap

\* C3: with an orderly device and fair scheduling, every call with valid
\* arguments eventually returns.
C3_EveryValidCallReturns ==
    (call[1].out = "running" /\ ValidCall(call[1].c)) ~> (call[1].out = "returned")

\* C4: a CommandComplete handled while no caller is waiting does not release
\* the next wait: a wait() that follows such a signal and returns at once was
\* released by a CommandComplete read after its own command bytes.
C4_UnattendedSignalReleasesNothing ==
    \A t \in Threads : (call[t].missed /\ call[t].immediate) => call[t].fresh

C6_WritesContiguous ==
    \A i \in 1..Len(wire) : \A k \in i..Len(wire) :
        (wire[i].w = wire[k].w /\ wire[i].id = wire[k].id) =>
            \A j \in i..k : wire[j].w = wire[i].w /\ wire[j].id = wire[i].id

\* C7: a caller blocked in wait() when the session is closed is eventually
\* released with the closed-port error.
C7_CloseReleasesBlockedCaller ==
    \A t \in Threads :
        (pc[t] = "blocked" /\ ~serialOpen) ~> (call[t].out = "SerialException")

\* C8 as stated: a call started after close() ends with the closed-port error,
\* whatever its arguments.
C8_ClosedCallsFailSessionClosed ==
    \A t \in Threads :
        (call[t].afterClose /\ pc[t] = "idle") => call[t].out = "SerialException"

\* C8 as amended: a call started after close() writes no byte and never waits
\* on the gate; it ends with the error of its own argument check when that
\* check rejects it, and with the closed-port error otherwise.
C8_ClosedCallsFailWithoutWriting ==
    \A t \in Threads :
        call[t].afterClose =>
            /\ call[t].nw = 0
            /\ pc[t] \in {"idle", "write"}
            /\ pc[t] = "idle" =>
                 call[t].out = IF Plan(call[t].c).err # "none"
                               THEN Plan(call[t].c).err ELSE "SerialException"

\* C8 witness: a call with valid arguments, started after close(), has ended
\* with the closed-port error
C8_Witness ==
    /\ call[1].afterClose
    /\ ValidCall(call[1].c)
    /\ pc[1] = "idle"
    /\ call[1].out = "SerialException"

\* C9: a call made after a read of the reader loop failed fails fast: it
\* never gets to wait on the gate and never returns normally.
C9_CallsAfterFaultFailFast ==
    \A t \in Threads :
        call[t].afterFault => /\ pc[t] \notin {"wait", "blocked", "woken"}
                              /\ call[t].out # "returned"

\* C10: a call that ended with an error about its arguments (raised by the
\* method's own check, by int() or by struct.pack) has written nothing to the
\* transport.
C10_FailedCallsWriteNothing ==
    \A t \in Threads :
        call[t].out \in {"ValueError", "TypeError", "struct.error"} => call[t].nw = 0

\* C11: press(k) and click(k) with an integer k below 0 or above 255 (no
\* mouse-button code and no key code) on an open session fail with
\* ValueError and write nothing to the transport.
C11_OutOfDomainKeysRejected ==
    \A t \in Threads :
        LET c == call[t].c IN
        (/\ c.op \in {"press", "click"}
         /\ ~call[t].afterClose
         /\ c.a[1].k = "int"
         /\ (c.a[1].v < 0 \/ c.a[1].v > 255))
        => call[t].out = "ValueError" /\ call[t].nw = 0

\* C12: type(message, wpm, mistakes, accuracy) on an open session fails with
\* ValueError, nothing written, whenever message is no str, wpm no int in
\* 1..255, mistakes no bool or accuracy no int in 1..100 (0 and negative
\* integers included); with all four in their domains it raises no error
\* about its arguments.
C12_TypeArgumentsChecked ==
    \A t \in Threads :
        LET c == call[t].c
            InDomain == /\ c.a[1].k = "str"
                        /\ c.a[2].k = "int" /\ c.a[2].v \in 1..255
                        /\ c.a[3].k = "bool"
                        /\ c.a[4].k = "int" /\ c.a[4].v \in 1..100
        IN (c.op = "type" /\ ~call[t].afterClose)
           => IF InDomain
              THEN call[t].out \notin {"ValueError", "TypeError", "struct.error"}
              ELSE call[t].out = "ValueError" /\ call[t].nw = 0

\* C13: move(x, y) and bezier_move(x, y) on an open session fail with
\* ValueError and write nothing whenever x or y (or both) is neither an int
\* nor a float.
C13_MoveNeedsTwoNumbers ==
    \A t \in Threads :
        LET c == call[t].c IN
        (/\ c.op \in {"move", "bezier_move"}
         /\ ~call[t].afterClose
         /\ (c.a[1].k \notin {"int", "float"} \/ c.a[2].k \notin {"int", "float"}))
        => call[t].out = "ValueError" /\ call[t].nw = 0

\* C14 as stated: a press or release of a mouse-button code b writes
\* [0xE0, 0xE2 or 0xE3, b], of any other integer key code k in 0..255
\* [0xF0, 0xF1 or 0xF2, k], of any single character c [0xF0, 0xF1 or 0xF2,
\* code(c)]; the call writes these bytes in this order and nothing else.
C14_KeyBytes_AnyCharacter ==
    \A t \in Threads :
        LET c == call[t].c
            x == c.a[1]
            n == IF x.k = "str" THEN x.s[1] ELSE x.v
            sub == IF c.op = "press"
                   THEN IF n \in MOUSE_BUTTONS /\ x.k = "int" THEN MOUSE_PRESS ELSE KEYBOARD_PRESS
                   ELSE IF n \in MOUSE_BUTTONS /\ x.k = "int" THEN MOUSE_RELEASE ELSE KEYBOARD_RELEASE
            E == <<IF n \in MOUSE_BUTTONS /\ x.k = "int" THEN MOUSE_CMD ELSE KEYBOARD_CMD, sub, n>>
            W == Written(wire, t, call[t].id)
        IN (/\ c.op \in {"press", "release"}
            /\ (x.k = "int" /\ x.v \in 0..255) \/ (x.k = "str" /\ Len(x.s) = 1))
           => IF Sent(t) \/ call[t].out # "running"
              THEN W = E
              ELSE Len(W) <= 3 /\ W = SubSeq(E, 1, Len(W))

\* C14 (amended): the same for mouse-button codes, integer key codes in
\* 0..255 and single characters c with code(c) <= 255.
C14_KeyBytes ==
    \A t \in Threads :
        LET c == call[t].c
            x == c.a[1]
            n == IF x.k = "str" THEN x.s[1] ELSE x.v
            sub == IF c.op = "press"
                   THEN IF n \in MOUSE_BUTTONS /\ x.k = "int" THEN MOUSE_PRESS ELSE KEYBOARD_PRESS
                   ELSE IF n \in MOUSE_BUTTONS /\ x.k = "int" THEN MOUSE_RELEASE ELSE KEYBOARD_RELEASE
            E == <<IF n \in MOUSE_BUTTONS /\ x.k = "int" THEN MOUSE_CMD ELSE KEYBOARD_CMD, sub, n>>
            W == Written(wire, t, call[t].id)
        IN (/\ c.op \in {"press", "release"}
            /\ (x.k = "int" /\ x.v \in 0..255) \/ (x.k = "str" /\ Len(x.s) = 1 /\ x.s[1] <= 255))
           => IF Sent(t) \/ call[t].out # "running"
              THEN W = E
              ELSE Len(W) <= 3 /\ W = SubSeq(E, 1, Len(W))

\* a press of the middle button and a release of chr(255) have returned
C14_Witness ==
    /\ call[1].out = "returned"
    /\ call[1].c = Call("release", <<Txt(<<255>>)>>)
    /\ \E i \in 1..Len(wire) : wire[i].b = <<MOUSE_MIDDLE>> /\ wire[i].id # call[1].id

\* C15: for integers x and y in 0..65535, move(x, y) writes exactly
\* [0xE0, 0xE6, x mod 256, x div 256, y mod 256, y div 256] and
\* bezier_move(x, y) the same with 0xE7 in second place, and nothing else.
C15_MoveBytes ==
    \A t \in Threads :
        LET c == call[t].c
            x == c.a[1].v
            y == c.a[2].v
            E == <<MOUSE_CMD, IF c.op = "move" THEN MOUSE_MOVE ELSE MOUSE_BEZIER,
                   x % 256, x \div 256, y % 256, y \div 256>>
            W == Written(wire, t, call[t].id)
        IN (/\ c.op \in {"move", "bezier_move"}
            /\ c.a[1].k = "int" /\ x \in 0..65535
            /\ c.a[2].k = "int" /\ y \in 0..65535)
           => IF Sent(t) \/ call[t].out # "running"
              THEN W = E
              ELSE Len(W) <= 6 /\ W = SubSeq(E, 1, Len(W))

\* bezier_move(300, 65535) has returned after a move(65535, 0)
C15_Witness ==
    /\ call[1].out = "returned"
    /\ call[1].c = Call("bezier_move", <<PInt(300), PInt(65535)>>)
    /\ Written(wire, 1, call[1].id) = <<224, 231, 44, 1, 255, 255>>
    /\ call[1].id = 2
    /\ Written(wire, 1, 1) = <<224, 230, 255, 255, 0, 0>>

\* C16 as stated: for every str s without a zero character, one-character
\* strings included, write(s, endl) writes [0xF0, 0xF5 if endl else 0xF4, the
\* code of each character of s in order, 0x00] and nothing else.
C16_WriteBytes_EveryLength ==
    \A t \in Threads :
        LET c == call[t].c
            cs == c.a[1].s
            E == <<KEYBOARD_CMD, IF c.a[2].v = 1 THEN KEYBOARD_PRINTLN ELSE KEYBOARD_PRINT>>
                 \o cs \o <<0>>
            W == Written(wire, t, call[t].id)
        IN (/\ c.op = "write"
            /\ c.a[1].k = "str" /\ c.a[2].k = "bool"
            /\ \A i \in 1..Len(cs) : cs[i] \in 1..255)
           => IF Sent(t) \/ call[t].out # "running"
              THEN W = E
              ELSE Len(W) <= Len(E) /\ W = SubSeq(E, 1, Len(W))

\* C16 (amended): for every str s of characters 1..255 whose length is not
\* one, write(s, endl) writes [0xF0, 0xF5 if endl else 0xF4, the code of each
\* character of s in order, 0x00]; for a one-character str c it writes
\* [0xF0, 0xF6, code(c)] whatever endl is; nothing else is written.
C16_WriteBytes ==
    \A t \in Threads :
        LET c == call[t].c
            cs == c.a[1].s
            E == IF Len(cs) = 1 THEN <<KEYBOARD_CMD, KEYBOARD_WRITE, cs[1]>>
                 ELSE <<KEYBOARD_CMD, IF c.a[2].v = 1 THEN KEYBOARD_PRINTLN ELSE KEYBOARD_PRINT>>
                      \o cs \o <<0>>
            W == Written(wire, t, call[t].id)
        IN (/\ c.op = "write"
            /\ c.a[1].k = "str" /\ c.a[2].k = "bool"
            /\ \A i \in 1..Len(cs) : cs[i] \in 1..255)
           => IF Sent(t) \/ call[t].out # "running"
              THEN W = E
              ELSE Len(W) <= Len(E) /\ W = SubSeq(E, 1, Len(W))

\* write("AB", True) has returned after a write of the one-character "a"
C16_Witness ==
    /\ call[1].out = "returned"
    /\ call[1].c = Call("write", <<Txt(<<65, 66>>), PBool(TRUE)>>)
    /\ Written(wire, 1, call[1].id) = <<240, 245, 65, 66, 0>>
    /\ call[1].id = 2
    /\ Written(wire, 1, 1) = <<240, 246, 97>>

\* C17 as stated: a type call with a str message (characters 0..255), wpm in
\* 1..255, a bool mistakes and accuracy in 1..100 writes [0xF0, 0xF7, the
\* code of each character in order, 0x00, wpm, 1 if mistakes else 0,
\* accuracy] and nothing else, and a decoder reading up to the first 0x00
\* gets message, wpm, mistakes and accuracy back.
C17_TypeRoundTrip_AnyMessage ==
    \A t \in Threads :
        LET c == call[t].c
            cs == c.a[1].s
            E == <<KEYBOARD_CMD, KEYBOARD_TYPE>> \o cs
                 \o <<0, c.a[2].v, c.a[3].v, c.a[4].v>>
            W == Written(wire, t, call[t].id)
        IN (/\ c.op = "type"
            /\ c.a[1].k = "str" /\ \A i \in 1..Len(cs) : cs[i] \in 0..255
            /\ c.a[2].k = "int" /\ c.a[2].v \in 1..255
            /\ c.a[3].k = "bool"
            /\ c.a[4].k = "int" /\ c.a[4].v \in 1..100)
           => IF Sent(t) \/ call[t].out # "running"
              THEN /\ W = E
                   /\ DecodeType(W) = [message |-> cs, wpm |-> c.a[2].v,
                                       mistakes |-> c.a[3].v = 1, accuracy |-> c.a[4].v]
              ELSE Len(W) <= Len(E) /\ W = SubSeq(E, 1, Len(W))

\* C17 (amended): the same for messages whose characters are in 1..255 (no
\* chr(0)).
C17_TypeRoundTrip ==
    \A t \in Threads :
        LET c == call[t].c
            cs == c.a[1].s
            E == <<KEYBOARD_CMD, KEYBOARD_TYPE>> \o cs
                 \o <<0, c.a[2].v, c.a[3].v, c.a[4].v>>
            W == Written(wire, t, call[t].id)
        IN (/\ c.op = "type"
            /\ c.a[1].k = "str" /\ \A i \in 1..Len(cs) : cs[i] \in 1..255
            /\ c.a[2].k = "int" /\ c.a[2].v \in 1..255
            /\ c.a[3].k = "bool"
            /\ c.a[4].k = "int" /\ c.a[4].v \in 1..100)
           => IF Sent(t) \/ call[t].out # "running"
              THEN /\ W = E
                   /\ DecodeType(W) = [message |-> cs, wpm |-> c.a[2].v,
                                       mistakes |-> c.a[3].v = 1, accuracy |-> c.a[4].v]
              ELSE Len(W) <= Len(E) /\ W = SubSeq(E, 1, Len(W))

\* type("A" + chr(255), 255, False, 1) has returned
C17_Witness ==
    /\ call[1].out = "returned"
    /\ call[1].c = Call("type", <<Txt(<<65, 255>>), PInt(255), PBool(FALSE), PInt(1)>>)
    /\ Written(wire, 1, call[1].id) = <<240, 247, 65, 255, 0, 255, 0, 1>>

\* C18: the reader thread has ended only if the session was closed or a read
\* of the transport failed, whatever byte it handled and whatever values the
\* Calibration Provider returned.
C18_ReaderEndsOnlyOnReadFailure ==
    rpc = "dead" => (~serialOpen \/ fault # "none")

\* C19: once the reader has handled a 0xFF or a 0xE1 on an open, working
\* transport, it has written exactly four bytes for it: the two values the
\* Calibration Provider answered (width, height or pointer x, y), each as an
\* unsigned 16-bit value, low byte first.
C19_CalibrationReplyIsFourBytes ==
    (/\ byte \in {SCREEN_CALIBRATE, MOUSE_CALIBRATE}
     /\ rpc # "calibrate"
     /\ serialOpen /\ fault = "none")
    => Written(wire, READER, nReplies)
         = <<answer[1] % 256, answer[1] \div 256, answer[2] % 256, answer[2] \div 256>>

\* C20: when the reader reads a byte other than 0xE1, 0xFF and 0xFE, that step
\* writes nothing to the transport, leaves the gate as it is, releases no
\* caller, and leaves the reader at its read of the next byte.
C20_OtherBytesIgnored ==
    [][(/\ rpc = "read"
        /\ rx # <<>>
        /\ rx' = Tail(rx)
        /\ Head(rx) \notin {MOUSE_CALIBRATE, SCREEN_CALIBRATE, COMMAND_COMPLETE})
       => (wire' = wire /\ flag' = flag /\ pc' = pc /\ rpc' = "read")]_vars

\* the reader has read the byte 65 and is back at its read, while a caller
\* whose command is not acknowledged yet is blocked
C20_Witness ==
    /\ byte = 65
    /\ rpc = "read"
    /\ rx = <<>>
    /\ pc[1] = "blocked"
    /\ owed = 1
    /\ ~flag

\* C21: the handling of one CommandComplete (the reader's set()) lets at most
\* one blocked command call go on to return; any other caller thread blocked
\* at that moment is still blocked after it.
C21_OneCompleteReleasesOneCall ==
    [][(rpc = "set" /\ rpc' = "clear")
       => \A t, u \in Threads :
            (/\ pc[t] = "blocked" /\ pc'[t] # "blocked"
             /\ pc[u] = "blocked" /\ pc'[u] # "blocked")
            => t = u]_vars

====
